---- MODULE Spec2Model ----
(***************************************************************************)
(* A model of paddle3d/apis/config.py: the Config class that loads a yaml  *)
(* document (with _base_ inheritance), merges it over its base, applies    *)
(* overrides, and lazily builds model / datasets / optimizer objects from  *)
(* `type` descriptors through a component lookup.                          *)
(*                                                                         *)
(* Python values are records tagged by kind:                               *)
(*   "s"   a non-text scalar (number, bool), named by a string              *)
(*   "n"   None                                                             *)
(*   "str" a text string, kept as its sequence of characters                *)
(*   "l"   a list of values                                                 *)
(*   "d"   a dict object owned by the running call (a fresh object that no  *)
(*         caller holds), kept by its contents: key -> value                *)
(*   "r"   a reference to a dict object of the heap (a caller-owned dict)   *)
(*   "o"   an object built by a component, kept by its identity              *)
(*   "c"   a component (a class), as found in a registry                    *)
(***************************************************************************)
EXTENDS Integers, Sequences, FiniteSets, TLC

VARIABLES
    heap,       \* caller-owned dict objects: address -> contents
    given,      \* the trees as the caller built them, before the call
    dicArg,     \* _update_dic's argument dic (a heap reference)
    baseArg,    \* _update_dic's argument base_dic (a heap reference)
    merged,     \* outcome of the last _update_dic / _parse_from_yaml call
    files,      \* the file system: path -> parsed document
    registry,   \* the component registries of the process
    comName,    \* _load_component's argument
    component,  \* outcome of the last _load_component call
    objArg,     \* _load_object's argument obj
    loaded,     \* outcome of the last _load_object call
    objects,    \* the objects built so far: identity -> class and parameters
    cfg,        \* the Config object: dic, _model, _train_dataset, _val_dataset
    ret         \* outcome of the last call on the Config object

mergeVars == <<dicArg, baseArg, merged>>
resolveVars == <<comName, component>>
loadVars == <<objArg, loaded>>
configVars == <<cfg, ret>>
vars == <<heap, given, dicArg, baseArg, merged, files, registry, comName,
          component, objArg, loaded, objects, cfg, ret>>

\* The value of a variable a specification does not use
Idle == [k |-> "idle"]

----------------------------------------------------------------------------
(* Python values *)

Sc(x) == [k |-> "s", v |-> x]
NoneV == [k |-> "n"]
Str(chars) == [k |-> "str", p |-> chars]
Lst(items) == [k |-> "l", q |-> items]
Dct(m) == [k |-> "d", m |-> m]
Ref(a) == [k |-> "r", a |-> a]

PyTrue == Sc("True")
PyFalse == Sc("False")

EmptyMap == [x \in {} |-> NoneV]

\* isinstance(val, dict)
IsDict(v) == v.k \in {"d", "r"}

\* The key -> value contents of a dict value.
Items(h, v) == IF v.k = "r" THEN h[v.a] ELSE v.m

\* key in d
Contains(h, v, key) == key \in DOMAIN Items(h, v)

\* d.get(key, default)
Get(h, v, key, default) ==
    IF Contains(h, v, key) THEN Items(h, v)[key] ELSE default

Put(m, key, val) ==
    [x \in (DOMAIN m) \cup {key} |-> IF x = key THEN val ELSE m[x]]

Del(m, key) == [x \in (DOMAIN m) \ {key} |-> m[x]]

\* d[key] = val: writes the object d names, so a heap object when d is a
\* reference. Yields the heap and the (same) dict afterwards.
SetItem(h, v, key, val) ==
    IF v.k = "r"
    THEN [h |-> [h EXCEPT ![v.a] = Put(@, key, val)], v |-> v]
    ELSE [h |-> h, v |-> Dct(Put(v.m, key, val))]

\* d.pop(key), for a key d holds
PopItem(h, v, key) ==
    IF v.k = "r"
    THEN [h |-> [h EXCEPT ![v.a] = Del(@, key)], v |-> v]
    ELSE [h |-> h, v |-> Dct(Del(v.m, key))]

\* dict.copy() left out: the same object under a second name
DictAlias(h, v) == v

\* dict.copy(): a new dict object with the same (shared) values
DictCopy(h, v) == Dct(Items(h, v))

\* x == False as Python evaluates it for yaml scalars: False and 0 are equal
EqFalse(v) == v \in {PyFalse, Sc("0")}

\* One statement after another: e is evaluated once and F continues with
\* its value
With(e, F(_)) == CHOOSE out \in {F(v) : v \in {e}} : TRUE

Ok(h, v) == [h |-> h, v |-> v, err |-> "none"]
Raise(h, e) == [h |-> h, v |-> NoneV, err |-> e]

\* The tree a value denotes: every heap reference replaced by the contents
\* of the object it names.
RECURSIVE Deref(_, _)
Deref(h, v) ==
    CASE v.k = "r" -> Dct([x \in DOMAIN h[v.a] |-> Deref(h, h[v.a][x])])
      [] v.k = "d" -> Dct([x \in DOMAIN v.m |-> Deref(h, v.m[x])])
      [] v.k = "l" -> Lst([i \in DOMAIN v.q |-> Deref(h, v.q[i])])
      [] OTHER -> v

----------------------------------------------------------------------------
(* Config._update_dic *)

\* x.copy() of lines 91-92: a dict and a list have it, a scalar, a string
\* and None do not (AttributeError).
HasCopy(v) == v.k \in {"d", "r", "l"}

Copy(h, v) == IF IsDict(v) THEN DictCopy(h, v) ELSE v

RECURSIVE UpdateDic(_, _, _)
RECURSIVE UpdateItems(_, _, _, _)

\* The loop without its recursion: every override value replaces the base's
RECURSIVE UpdateItemsShallow(_, _, _, _)
UpdateItemsShallow(h, items, todo, base_dic) ==
    IF todo = {} THEN Ok(h, base_dic)
    ELSE LET key == CHOOSE x \in todo : TRUE
             s == SetItem(h, base_dic, key, items[key])
         IN  IF ~IsDict(base_dic) THEN Raise(h, "TypeError")
             ELSE UpdateItemsShallow(s.h, items, todo \ {key}, s.v)

\* The loop of lines 98-102 over the items of the copied dic, writing into
\* base_dic; todo holds the keys still to visit.
UpdateItems(h, items, todo, base_dic) ==
    IF todo = {} THEN Ok(h, base_dic)
    ELSE LET key == CHOOSE x \in todo : TRUE
             val == items[key]
         IN  IF ~IsDict(base_dic)
             THEN Raise(h, "TypeError")   \* a str key used on a list
             ELSE IF IsDict(val) /\ Contains(h, base_dic, key)
             THEN LET r == UpdateDic(h, val, Items(h, base_dic)[key])
                  IN  IF r.err # "none" THEN r
                      ELSE LET s == SetItem(r.h, base_dic, key, r.v)
                           IN  UpdateItems(s.h, items, todo \ {key}, s.v)
             ELSE LET s == SetItem(h, base_dic, key, val)
                  IN  UpdateItems(s.h, items, todo \ {key}, s.v)

UpdateDic(h, dic, base_dic) ==
    IF ~HasCopy(base_dic) THEN Raise(h, "AttributeError")
    ELSE LET b == Copy(h, base_dic)
             d == DictCopy(h, dic)
         IN  IF EqFalse(Get(h, d, "_inherited_", PyTrue))
             THEN LET s == PopItem(h, d, "_inherited_")
                  IN  Ok(s.h, s.v)
             ELSE UpdateItems(h, Items(h, d), DOMAIN Items(h, d), b)

----------------------------------------------------------------------------
(* Config._load_component *)

Comp(home, name) == [k |-> "c", home |-> home, name |-> name]

UpperCase == <<"A", "B", "C", "D", "E", "F", "G", "H", "I", "J", "K", "L", "M",
               "N", "O", "P", "Q", "R", "S", "T", "U", "V", "W", "X", "Y", "Z">>
LowerCase == <<"a", "b", "c", "d", "e", "f", "g", "h", "i", "j", "k", "l", "m",
               "n", "o", "p", "q", "r", "s", "t", "u", "v", "w", "x", "y", "z">>

\* str.lower()
Lower(chars) ==
    [i \in DOMAIN chars |->
        IF \E j \in DOMAIN UpperCase : UpperCase[j] = chars[i]
        THEN LowerCase[CHOOSE j \in DOMAIN UpperCase : UpperCase[j] = chars[i]]
        ELSE chars[i]]

\* str.startswith(prefix)
StartsWith(chars, prefix) ==
    Len(chars) >= Len(prefix) /\ SubSeq(chars, 1, Len(prefix)) = prefix

\* str.endswith(suffix)
EndsWith(chars, suffix) ==
    /\ Len(chars) >= Len(suffix)
    /\ SubSeq(chars, Len(chars) - Len(suffix) + 1, Len(chars)) = suffix

\* com_name[n:]
DropFirst(chars, n) == SubSeq(chars, n + 1, Len(chars))

SegPrefix == <<"$", "p", "a", "d", "d", "l", "e", "s", "e", "g">>
DetPrefix == <<"$", "p", "a", "d", "d", "l", "e", "d", "e", "t">>

\* The 11 of com_name[11:]: the prefix and one separator character
PrefixCut == 11

\* paddle3d.apis.manager.__all__: the local registries, in their order
ManagerAll == <<"BACKBONES", "MODELS", "DATASETS">>

\* com_list of _load_component_from_paddleseg, in its order
SegComList == <<"BACKBONES", "DATASETS", "MODELS", "TRANSFORMS", "LOSSES">>

\* The first registry of the list whose components_dict holds the name
RECURSIVE FirstHolding(_, _, _, _, _)
FirstHolding(dicts, order, home, name, i) ==
    IF i > Len(order) THEN NoneV
    ELSE IF name \in dicts[order[i]] THEN Comp(home \o <<order[i]>>, name)
    ELSE FirstHolding(dicts, order, home, name, i + 1)

LoadComponentFromPaddleseg(reg, com_name) ==
    LET found == FirstHolding(reg.seg, SegComList, <<"paddleseg">>, com_name, 1)
    IN  IF found # NoneV THEN [v |-> found, err |-> "none"]
        ELSE [v |-> NoneV, err |-> "RuntimeError: not found in paddleseg"]

LoadComponentFromPaddledet(reg, com_name) ==
    IF com_name \in reg.det
    THEN [v |-> Comp(<<"ppdet">>, com_name), err |-> "none"]
    ELSE [v |-> NoneV, err |-> "RuntimeError: not found in paddledet"]

\* The built-in namespaces searched optimizer first
BuiltinsOptimizerFirst(reg, com_name) ==
    IF com_name \in reg.optimizer
    THEN [v |-> Comp(<<"paddle.optimizer">>, com_name), err |-> "none"]
    ELSE IF com_name \in reg.lr
    THEN [v |-> Comp(<<"paddle.optimizer.lr">>, com_name), err |-> "none"]
    ELSE IF com_name \in reg.nn
    THEN [v |-> Comp(<<"paddle.nn">>, com_name), err |-> "none"]
    ELSE [v |-> NoneV, err |-> "RuntimeError: not found"]

\* The built-in namespaces after the local registries: lr, optimizer, nn
Builtins(reg, com_name) ==
    IF com_name \in reg.lr
    THEN [v |-> Comp(<<"paddle.optimizer.lr">>, com_name), err |-> "none"]
    ELSE IF com_name \in reg.optimizer
    THEN [v |-> Comp(<<"paddle.optimizer">>, com_name), err |-> "none"]
    ELSE IF com_name \in reg.nn
    THEN [v |-> Comp(<<"paddle.nn">>, com_name), err |-> "none"]
    ELSE [v |-> NoneV, err |-> "RuntimeError: not found"]

LoadComponent(reg, com_name) ==
    IF StartsWith(Lower(com_name), SegPrefix)
    THEN LoadComponentFromPaddleseg(reg, DropFirst(com_name, PrefixCut))
    ELSE IF StartsWith(Lower(com_name), DetPrefix)
    THEN LoadComponentFromPaddledet(reg, DropFirst(com_name, PrefixCut))
    ELSE LET found == FirstHolding(reg.local, ManagerAll, <<"manager">>, com_name, 1)
         IN  IF found # NoneV THEN [v |-> found, err |-> "none"]
             ELSE Builtins(reg, com_name)

----------------------------------------------------------------------------
(* Config._load_object *)

Obj(id) == [k |-> "o", id |-> id]

\* The dict builtin, the component of a mapping without a type key
DictClass == [k |-> "c", home |-> <<"builtins">>, name |-> <<"d", "i", "c", "t">>]

Done(h, objs, v) == [h |-> h, objs |-> objs, v |-> v, err |-> "none"]
Fail(h, objs, e) == [h |-> h, objs |-> objs, v |-> NoneV, err |-> e]

\* component(**params): dict builds a plain dict of the parameters, a
\* registered component builds a new object, recorded in objs by its class
\* and the parameters it was called with.
Construct(h, objs, comp, params) ==
    IF comp = DictClass THEN Done(h, objs, Dct(params))
    ELSE Done(h, Append(objs, [cls |-> comp, kwargs |-> params]),
              Obj(Len(objs) + 1))

\* isinstance(obj, Mapping)
IsMapping(v) == v.k \in {"d", "r"}

\* isinstance(obj, Iterable) and not isinstance(obj, str)
IsSequence(v) == v.k = "l"

\* The component looked up from dic['type'], the key left in dic
ComponentOfKeepType(reg, h, dic) ==
    IF ~Contains(h, dic, "type")
    THEN [h |-> h, dic |-> dic, v |-> DictClass, err |-> "none"]
    ELSE LET name == Items(h, dic)["type"]
             r == IF name.k = "str" THEN LoadComponent(reg, name.p)
                  ELSE [v |-> NoneV, err |-> "AttributeError"]
         IN  [h |-> h, dic |-> dic, v |-> r.v, err |-> r.err]

\* self._load_component(dic.pop('type')) if 'type' in dic else dict
ComponentOf(reg, h, dic) ==
    IF ~Contains(h, dic, "type")
    THEN [h |-> h, dic |-> dic, v |-> DictClass, err |-> "none"]
    ELSE LET name == Items(h, dic)["type"]
             s == PopItem(h, dic, "type")
             r == IF name.k = "str" THEN LoadComponent(reg, name.p)
                  ELSE [v |-> NoneV, err |-> "AttributeError"]
         IN  [h |-> s.h, dic |-> s.v, v |-> r.v, err |-> r.err]

RECURSIVE LoadObject(_, _, _, _, _)
RECURSIVE LoadParams(_, _, _, _, _, _)
RECURSIVE LoadList(_, _, _, _, _, _)

\* The loop of lines 277-279: params[key] = self._load_object(val)
LoadParams(reg, h, objs, items, todo, params) ==
    IF todo = {} THEN Done(h, objs, Dct(params))
    ELSE LET key == CHOOSE x \in todo : TRUE
             r == LoadObject(reg, h, objs, items[key], TRUE)
         IN  IF r.err # "none" THEN r
             ELSE LoadParams(reg, r.h, r.objs, items, todo \ {key},
                             Put(params, key, r.v))

\* [self._load_object(item) for item in obj]
LoadList(reg, h, objs, q, i, acc) ==
    IF i > Len(q) THEN Done(h, objs, Lst(acc))
    ELSE LET r == LoadObject(reg, h, objs, q[i], TRUE)
         IN  IF r.err # "none" THEN r
             ELSE LoadList(reg, r.h, r.objs, q, i + 1, Append(acc, r.v))

LoadObject(reg, h, objs, obj, recursive) ==
    IF IsMapping(obj)
    THEN LET dic == DictCopy(h, obj)
             c == ComponentOf(reg, h, dic)
             params == IF recursive
                       THEN LoadParams(reg, c.h, objs, Items(c.h, c.dic),
                                       DOMAIN Items(c.h, c.dic), EmptyMap)
                       ELSE Done(c.h, objs, DictCopy(c.h, c.dic))
         IN  IF c.err # "none" THEN Fail(c.h, objs, c.err)
             ELSE IF params.err # "none" THEN params
             ELSE Construct(params.h, params.objs, c.v, params.v.m)
    ELSE IF IsSequence(obj) THEN LoadList(reg, h, objs, obj.q, 1, <<>>)
    ELSE Done(h, objs, obj)

----------------------------------------------------------------------------
(* Paths and Config._parse_from_yaml *)

Missing == [k |-> "missing"]

\* The document at a path, as yaml.load returns it (a new tree each time).
ReadFile(fs, path) == IF path \in DOMAIN fs THEN fs[path] ELSE Missing

\* The positions of "/" in a path
Slashes(path) == {i \in DOMAIN path : path[i] = "/"}

Last(S) == CHOOSE i \in S : \A j \in S : j <= i

\* os.path.dirname(path), for a path without a trailing or doubled slash
DirName(path) ==
    IF Slashes(path) = {} THEN <<>>
    ELSE IF Last(Slashes(path)) = 1 THEN <<"/">>
    ELSE SubSeq(path, 1, Last(Slashes(path)) - 1)

\* os.path.join(cfg_dir, base_path)
PathJoin(dir, rel) ==
    IF rel # <<>> /\ rel[1] = "/" THEN rel
    ELSE IF dir = <<>> \/ dir[Len(dir)] = "/" THEN dir \o rel
    ELSE dir \o <<"/">> \o rel

RECURSIVE ParseFromYaml(_, _, _)
ParseFromYaml(fs, h, path) ==
    IF ReadFile(fs, path) = Missing THEN Raise(h, "FileNotFoundError")
    ELSE LET dic == ReadFile(fs, path)
         IN  IF Contains(h, dic, "_base_")
             THEN LET cfg_dir == DirName(path)
                      popped == PopItem(h, dic, "_base_")
                      base_path == PathJoin(cfg_dir, Items(h, dic)["_base_"].p)
                  IN  With(ParseFromYaml(fs, popped.h, base_path),
                           LAMBDA base :
                             IF base.err # "none" THEN base
                             ELSE UpdateDic(base.h, popped.v, base.v))
             ELSE Ok(h, dic)

----------------------------------------------------------------------------
(* The Config object: __init__, update and the properties *)

Sequential == <<"S", "e", "q", "u", "e", "n", "t", "i", "a", "l">>

\* The parameters() of a model object: the list of its own parameters
Parameters(model) == [k |-> "params", of |-> model]

\* len(obj) == 0 for an object: paddle.nn.Sequential called with no
\* sublayers, as component(**params) calls it, is an empty container
LenZero(obj) == obj.cls = Comp(<<"paddle.nn">>, Sequential)

\* bool(x), the test of `not x`
Truthy(objs, v) ==
    CASE v.k = "n" -> FALSE
      [] v.k = "o" -> ~LenZero(objs[v.id])
      [] v.k = "d" -> v.m # EmptyMap
      [] v.k = "l" -> v.q # <<>>
      [] v.k = "s" -> v.v \notin {"False", "0"}
      [] v.k = "str" -> v.p # <<>>
      [] OTHER -> TRUE

NoHeap == <<>>

Returns(c, objs, v) == [cfg |-> c, objs |-> objs, v |-> v, err |-> "none"]
Raises(c, objs, e) == [cfg |-> c, objs |-> objs, v |-> NoneV, err |-> e]

\* Config.update
Update(c, learning_rate, batch_size, iters, epochs) ==
    LET dic0 == c.dic
        lrMissing == learning_rate # NoneV /\ ~Contains(NoHeap, dic0, "lr_scheduler")
        lrNoItems == /\ learning_rate # NoneV
                     /\ Contains(NoHeap, dic0, "lr_scheduler")
                     /\ ~IsDict(dic0.m["lr_scheduler"])
        dic1 == IF learning_rate # NoneV
                THEN SetItem(NoHeap, dic0, "lr_scheduler",
                             SetItem(NoHeap, dic0.m["lr_scheduler"],
                                     "learning_rate", learning_rate).v).v
                ELSE dic0
        dic2 == IF batch_size # NoneV
                THEN SetItem(NoHeap, dic1, "batch_size", batch_size).v ELSE dic1
        dic3 == IF iters # NoneV
                THEN SetItem(NoHeap, dic2, "iters", iters).v ELSE dic2
        dic4 == IF epochs # NoneV
                THEN SetItem(NoHeap, dic3, "epochs", epochs).v ELSE dic3
    IN  IF lrMissing THEN [cfg |-> c, err |-> "KeyError"]
        ELSE IF lrNoItems THEN [cfg |-> c, err |-> "TypeError"]
        ELSE [cfg |-> [c EXCEPT !.dic = dic4], err |-> "none"]

Yml == <<"y", "m", "l">>
Yaml == <<"y", "a", "m", "l">>

\* Config.__init__
New(fs, path, learning_rate, batch_size, iters, epochs) ==
    IF path = <<>> THEN [cfg |-> NoneV, err |-> "ValueError"]
    ELSE IF path \notin DOMAIN fs THEN [cfg |-> NoneV, err |-> "FileNotFoundError"]
    ELSE IF ~(EndsWith(path, Yml) \/ EndsWith(path, Yaml))
    THEN [cfg |-> NoneV, err |-> "RuntimeError: not yaml"]
    ELSE With(ParseFromYaml(fs, NoHeap, path),
              LAMBDA parsed :
                IF parsed.err # "none" THEN [cfg |-> NoneV, err |-> parsed.err]
                ELSE With(Update([dic |-> parsed.v, _model |-> NoneV,
                                  _train_dataset |-> NoneV, _val_dataset |-> NoneV],
                                 learning_rate, batch_size, iters, epochs),
                          LAMBDA u :
                            IF u.err # "none" THEN [cfg |-> NoneV, err |-> u.err]
                            ELSE u))

\* Config.batch_size, Config.iters, Config.epochs
BatchSize(c) == Get(NoHeap, c.dic, "batch_size", Sc("1"))
Iters(c) == Get(NoHeap, c.dic, "iters", NoneV)
Epochs(c) == Get(NoHeap, c.dic, "epochs", NoneV)

\* Config.lr_scheduler
LrScheduler(reg, c, objs) ==
    IF ~Contains(NoHeap, c.dic, "lr_scheduler")
    THEN Raises(c, objs, "RuntimeError: no lr_scheduler")
    ELSE With(LoadObject(reg, NoHeap, objs, c.dic.m["lr_scheduler"], TRUE),
              LAMBDA r : [cfg |-> c, objs |-> r.objs, v |-> r.v, err |-> r.err])

\* Config.model
Model(reg, c, objs) ==
    LET section == Get(NoHeap, c.dic, "model", NoneV)
        model_cfg == Copy(NoHeap, section)
    IN  IF ~HasCopy(section) THEN Raises(c, objs, "AttributeError")
        ELSE IF ~Truthy(objs, model_cfg) THEN Raises(c, objs, "RuntimeError: no model")
        ELSE IF Truthy(objs, c._model) THEN Returns(c, objs, c._model)
        ELSE With(LoadObject(reg, NoHeap, objs, model_cfg, TRUE),
                  LAMBDA r :
                    IF r.err # "none" THEN Raises(c, r.objs, r.err)
                    ELSE Returns([c EXCEPT !._model = r.v], r.objs, r.v))

\* model.parameters(), of what the model property returned
ParametersOf(v) == IF v.k = "o" THEN Parameters(v) ELSE NoneV

\* Config.optimizer
Optimizer(reg, c, objs) ==
    LET section == Get(NoHeap, c.dic, "optimizer", Dct(EmptyMap))
        params0 == Copy(NoHeap, section)
        Load(model, params2) ==
            With(LoadObject(reg, NoHeap, model.objs, params2, TRUE),
                 LAMBDA r : [cfg |-> model.cfg, objs |-> r.objs, v |-> r.v, err |-> r.err])
    IN  IF ~IsDict(section) THEN Raises(c, objs, "AttributeError")
        ELSE With(LrScheduler(reg, c, objs),
                  LAMBDA lr :
                    IF lr.err # "none" THEN lr
                    ELSE With(Model(reg, lr.cfg, lr.objs),
                              LAMBDA model :
                                IF model.err # "none" THEN model
                                ELSE IF model.v.k # "o"
                                THEN Raises(model.cfg, model.objs, "AttributeError")
                                ELSE Load(model,
                                          SetItem(NoHeap,
                                                  SetItem(NoHeap, params0,
                                                          "learning_rate", lr.v).v,
                                                  "parameters",
                                                  ParametersOf(model.v)).v)))

\* Config.train_dataset and Config.val_dataset: the section and the slot
Dataset(reg, c, objs, section_key, slot) ==
    LET section == Get(NoHeap, c.dic, section_key, Dct(EmptyMap))
        config == Copy(NoHeap, section)
    IN  IF ~HasCopy(section) THEN Raises(c, objs, "AttributeError")
        ELSE IF ~Truthy(objs, config) THEN Returns(c, objs, NoneV)
        ELSE IF Truthy(objs, c[slot]) THEN Returns(c, objs, c[slot])
        ELSE With(LoadObject(reg, NoHeap, objs, config, TRUE),
                  LAMBDA r :
                    IF r.err # "none" THEN Raises(c, r.objs, r.err)
                    ELSE Returns([c EXCEPT ![slot] = r.v], r.objs, r.v))

----------------------------------------------------------------------------
(* The documents the merge is run on *)

MaxKeys == 5
MaxDepth == 2

Keys == {"a", "b"}

\* The number of keys and list items of a tree
RECURSIVE Size(_)
Size(t) ==
    CASE t.k = "l" -> Len(t.q)
      [] t.k = "d" ->
           LET RECURSIVE Sum(_)
               Sum(S) == IF S = {} THEN 0
                         ELSE LET x == CHOOSE y \in S : TRUE
                              IN  1 + Size(t.m[x]) + Sum(S \ {x})
           IN  Sum(DOMAIN t.m)
      [] OTHER -> 0

Absent == [k |-> "absent"]

\* What a key of a document may hold within a budget of n: nothing, an atom,
\* or a nested dict of size at most n - 1, depth levels deep at most.
RECURSIVE DictsOf(_, _, _)
Entries(atoms, n, depth) ==
    {Absent}
    \cup {x \in atoms : 1 + Size(x) <= n}
    \cup (IF n >= 1 /\ depth >= 1 THEN DictsOf(atoms, n - 1, depth - 1) ELSE {})

Cost(e) == IF e = Absent THEN 0 ELSE 1 + Size(e)

Build(mk, va, vb) ==
    LET present == {x \in {"_inherited_", "a", "b"} :
                       (CASE x = "_inherited_" -> mk [] x = "a" -> va [] OTHER -> vb)
                       # Absent}
    IN  Dct([x \in present |->
                CASE x = "_inherited_" -> mk [] x = "a" -> va [] OTHER -> vb])

\* The dicts over the keys a, b and the marker _inherited_ (False or True)
\* with at most n keys in all and at most depth levels of nesting.
DictsOf(atoms, n, depth) ==
    UNION {UNION {{Build(mk, va, vb) :
                      vb \in Entries(atoms, n - Cost(mk) - Cost(va), depth)} :
                  va \in Entries(atoms, n - Cost(mk), depth)} :
           mk \in {Absent} \cup (IF n >= 1 THEN {PyFalse, PyTrue} ELSE {})}

OverrideAtoms == {Sc("1")}
BaseAtoms == {Sc("2"), Lst(<<Sc("2")>>)}

\* Lays a tree out in the heap, one object per dict; yields the heap and the
\* reference to the tree's root.
RECURSIVE Store(_, _)
Store(h, t) ==
    CASE t.k = "d" ->
           LET RECURSIVE StoreItems(_, _, _)
               StoreItems(hh, todo, m) ==
                   IF todo = {} THEN [h |-> hh, m |-> m]
                   ELSE LET x == CHOOSE y \in todo : TRUE
                            r == Store(hh, t.m[x])
                        IN  StoreItems(r.h, todo \ {x}, Put(m, x, r.v))
               done == StoreItems(h, DOMAIN t.m, EmptyMap)
           IN  [h |-> Append(done.h, done.m), v |-> Ref(Len(done.h) + 1)]
      [] t.k = "l" ->
           LET RECURSIVE StoreList(_, _, _)
               StoreList(hh, i, q) ==
                   IF i > Len(t.q) THEN [h |-> hh, v |-> Lst(q)]
                   ELSE LET r == Store(hh, t.q[i])
                        IN  StoreList(r.h, i + 1, Append(q, r.v))
           IN  StoreList(h, 1, <<>>)
      [] OTHER -> [h |-> h, v |-> t]

ChildPath == <<"c", "f", "g", "/", "c", ".", "y", "m", "l">>
BasePath == <<"c", "f", "g", "/", "b", ".", "y", "m", "l">>
BaseName == <<"b", ".", "y", "m", "l">>

Pending == [op |-> "none", h |-> <<>>, v |-> NoneV, err |-> "none"]

MergeInit ==
    \E d \in DictsOf(OverrideAtoms, MaxKeys, MaxDepth) :
      \E b \in DictsOf(BaseAtoms, MaxKeys - Size(d), MaxDepth) :
        LET sd == Store(<<>>, d)
            sb == Store(sd.h, b)
        IN  /\ heap = sb.h
            /\ dicArg = sd.v
            /\ baseArg = sb.v
            /\ given = [dic |-> d, base |-> b]
            /\ files = [p \in {ChildPath, BasePath} |->
                          IF p = ChildPath
                          THEN Dct(Put(d.m, "_base_", Str(BaseName)))
                          ELSE b]
            /\ merged = Pending
            /\ registry = Idle /\ comName = Idle /\ component = Idle
            /\ objArg = Idle /\ loaded = Idle /\ objects = Idle
            /\ cfg = Idle /\ ret = Idle

\* self._update_dic(dic, base_dic) on two caller-owned trees
CallUpdateDic ==
    /\ merged.op = "none"
    /\ LET r == UpdateDic(heap, dicArg, baseArg)
       IN  /\ heap' = r.h
           /\ merged' = [op |-> "_update_dic", h |-> r.h, v |-> r.v, err |-> r.err]
    /\ UNCHANGED <<dicArg, baseArg, given, files, registry, objects>>
    /\ UNCHANGED <<resolveVars, loadVars, configVars>>

\* self._parse_from_yaml(path) of the child document
CallParseFromYaml ==
    /\ merged.op = "none"
    /\ LET r == ParseFromYaml(files, heap, ChildPath)
       IN  /\ heap' = r.h
           /\ merged' = [op |-> "_parse_from_yaml", h |-> r.h, v |-> r.v, err |-> r.err]
    /\ UNCHANGED <<dicArg, baseArg, given, files, registry, objects>>
    /\ UNCHANGED <<resolveVars, loadVars, configVars>>

MergeNext == CallUpdateDic \/ CallParseFromYaml

MergeSpec == MergeInit /\ [][MergeNext]_vars

----------------------------------------------------------------------------
(* Properties of the merge *)

MergedTree == Deref(merged.h, merged.v)

\* A dict carrying _inherited_ set to false
MarkedFalse(t) ==
    t.k = "d" /\ "_inherited_" \in DOMAIN t.m /\ EqFalse(t.m["_inherited_"])

\* Some dict of the tree, at any depth, carries _inherited_: false
RECURSIVE HasFalseMarker(_)
HasFalseMarker(t) ==
    /\ t.k = "d"
    /\ \/ MarkedFalse(t)
       \/ \E x \in DOMAIN t.m : HasFalseMarker(t.m[x])

\* The four rules of the deep merge, at every nesting level
RECURSIVE Conforms(_, _, _)
Conforms(r, d, b) ==
    /\ r.k = "d" /\ d.k = "d" /\ b.k = "d"
    /\ \A x \in (DOMAIN d.m) \ (DOMAIN b.m) : x \in DOMAIN r.m /\ r.m[x] = d.m[x]
    /\ \A x \in (DOMAIN b.m) \ (DOMAIN d.m) : x \in DOMAIN r.m /\ r.m[x] = b.m[x]
    /\ \A x \in (DOMAIN d.m) \cap (DOMAIN b.m) :
          /\ x \in DOMAIN r.m
          /\ IF d.m[x].k = "d" THEN Conforms(r.m[x], d.m[x], b.m[x])
             ELSE r.m[x] = d.m[x]

\* Wherever the override holds a mapping under a key the base has too, the
\* base holds a mapping there as well, at every nesting level
RECURSIVE Mergeable(_, _)
Mergeable(d, b) ==
    \A x \in (DOMAIN d.m) \cap (DOMAIN b.m) :
        d.m[x].k = "d" => (b.m[x].k = "d" /\ Mergeable(d.m[x], b.m[x]))

Loaded == merged.op = "_parse_from_yaml"

Strip(t) == Dct(Del(t.m, "_inherited_"))

\* Every mapping of the override marked _inherited_: false is in the result
\* as the override's subtree without the marker
RECURSIVE MarkersConsumed(_, _)
MarkersConsumed(r, d) ==
    IF MarkedFalse(d) THEN r = Strip(d)
    ELSE /\ r.k = "d"
         /\ \A x \in DOMAIN d.m :
               (d.m[x].k = "d" /\ x \in DOMAIN r.m /\ r.m[x].k = "d")
                   => MarkersConsumed(r.m[x], d.m[x])

\* C5, as stated: in merge(override, base) a mapping of the override marked
\* _inherited_: false, at any depth, appears in the result as the override's
\* subtree with the marker removed and nothing of the base's subtree.
C5_AsStated ==
    (merged.op = "_update_dic" /\ merged.err = "none")
        => MarkersConsumed(MergedTree, given.dic)

\* C6: _update_dic leaves both of its arguments, at every nesting level, with
\* the keys and values they had before the call, whether it returns or raises.
C6_NoMutation ==
    merged.op = "_update_dic"
        => /\ Deref(heap, dicArg) = given.dic
           /\ Deref(heap, baseArg) = given.base

\* A merge that removed a nested marker and wrote merged keys two levels down
C6_Witness ==
    /\ merged.op = "_update_dic" /\ merged.err = "none"
    /\ \E x \in Keys, y \in Keys :
          /\ x \in DOMAIN given.dic.m /\ x \in DOMAIN given.base.m
          /\ given.dic.m[x].k = "d" /\ given.base.m[x].k = "d"
          /\ y \in DOMAIN given.dic.m[x].m /\ y \in DOMAIN given.base.m[x].m
          /\ MarkedFalse(given.dic.m[x].m[y])
          /\ MergedTree.m[x].m[y] = Strip(given.dic.m[x].m[y])
          /\ MergedTree.m[x] # given.dic.m[x]

----------------------------------------------------------------------------
(* The registries and names the component lookup is run on *)

MaxRegistered == 3

Foo == <<"F", "o", "o">>
Bar == <<"B", "a", "r">>
RegNames == {Foo, Bar}

Range(q) == {q[i] : i \in DOMAIN q}

\* Where a component may be registered
Slots ==
    {<<"local", r>> : r \in Range(ManagerAll)}
    \cup {<<"seg", r>> : r \in Range(SegComList)}
    \cup {<<"det", "">>, <<"lr", "">>, <<"optimizer", "">>, <<"nn", "">>}

RECURSIVE SubsetsUpTo(_, _)
SubsetsUpTo(S, n) ==
    IF n = 0 THEN {{}}
    ELSE LET smaller == SubsetsUpTo(S, n - 1)
         IN  smaller \cup {T \cup {e} : T \in smaller, e \in S}

\* The registries holding exactly the registrations E
RegistryOf(E) ==
    [local |-> [r \in Range(ManagerAll) |-> {e[2] : e \in {x \in E : x[1] = <<"local", r>>}}],
     seg |-> [r \in Range(SegComList) |-> {e[2] : e \in {x \in E : x[1] = <<"seg", r>>}}],
     det |-> {e[2] : e \in {x \in E : x[1] = <<"det", "">>}},
     lr |-> {e[2] : e \in {x \in E : x[1] = <<"lr", "">>}},
     optimizer |-> {e[2] : e \in {x \in E : x[1] = <<"optimizer", "">>}},
     nn |-> {e[2] : e \in {x \in E : x[1] = <<"nn", "">>}}]

\* The names asked for: what is written, the family its prefix names and
\* the name that family is asked for
Queries ==
    {[text |-> n, family |-> "none", base |-> n] : n \in RegNames}
    \cup {[text |-> SegPrefix \o <<".">> \o n, family |-> "seg", base |-> n] : n \in RegNames}
    \cup {[text |-> <<"$", "P", "a", "d", "d", "l", "e", "S", "e", "g", ":">> \o Foo,
           family |-> "seg", base |-> Foo]}
    \cup {[text |-> DetPrefix \o <<".">> \o n, family |-> "det", base |-> n] : n \in RegNames}
    \cup {[text |-> <<"$", "P", "A", "D", "D", "L", "E", "D", "E", "T", ".">> \o Bar,
           family |-> "det", base |-> Bar]}
    \cup {[text |-> SegPrefix \o Foo, family |-> "seg", base |-> <<"o", "o">>]}
    \cup {[text |-> <<"$", "s", "e", "g", ".">> \o Foo, family |-> "none",
           base |-> <<"$", "s", "e", "g", ".">> \o Foo]}

NotCalled == [op |-> "none", v |-> NoneV, err |-> "none"]

ResolveInit ==
    /\ \E E \in SubsetsUpTo(Slots \X RegNames, MaxRegistered) :
          registry = RegistryOf(E)
    /\ comName = Idle
    /\ component = NotCalled
    /\ heap = Idle /\ dicArg = Idle /\ baseArg = Idle /\ given = Idle
    /\ merged = Idle /\ files = Idle
    /\ objArg = Idle /\ loaded = Idle /\ objects = Idle
    /\ cfg = Idle /\ ret = Idle

\* self._load_component(com_name)
CallLoadComponent ==
    /\ component.op = "none"
    /\ \E q \in Queries :
          LET r == LoadComponent(registry, q.text)
          IN  /\ comName' = q.text
              /\ component' = [op |-> "_load_component", v |-> r.v, err |-> r.err]
    /\ UNCHANGED <<registry, heap, given, files, objects>>
    /\ UNCHANGED <<mergeVars, loadVars, configVars>>

ResolveNext == CallLoadComponent

ResolveSpec == ResolveInit /\ [][ResolveNext]_vars

Asked == CHOOSE q \in Queries : q.text = comName

Lowest(S) == CHOOSE i \in S : \A j \in S : i <= j

\* C9: a name with a family prefix is looked up in that family's registry
\* alone and fails with that family's error when absent there; another name
\* comes from the first local registry holding it, else from the lr, then the
\* optimizer, then the nn namespace, else the lookup fails.
C9_Priority ==
    component.op = "_load_component" =>
        LET q == Asked
            segHits == {i \in DOMAIN SegComList : q.base \in registry.seg[SegComList[i]]}
            localHits == {i \in DOMAIN ManagerAll : q.base \in registry.local[ManagerAll[i]]}
            found(c) == component.err = "none" /\ component.v = c
            failed(e) == component.err = e /\ component.v = NoneV
        IN  CASE q.family = "seg" ->
                    IF segHits # {}
                    THEN found(Comp(<<"paddleseg", SegComList[Lowest(segHits)]>>, q.base))
                    ELSE failed("RuntimeError: not found in paddleseg")
              [] q.family = "det" ->
                    IF q.base \in registry.det
                    THEN found(Comp(<<"ppdet">>, q.base))
                    ELSE failed("RuntimeError: not found in paddledet")
              [] OTHER ->
                    IF localHits # {}
                    THEN found(Comp(<<"manager", ManagerAll[Lowest(localHits)]>>, q.base))
                    ELSE IF q.base \in registry.lr
                    THEN found(Comp(<<"paddle.optimizer.lr">>, q.base))
                    ELSE IF q.base \in registry.optimizer
                    THEN found(Comp(<<"paddle.optimizer">>, q.base))
                    ELSE IF q.base \in registry.nn
                    THEN found(Comp(<<"paddle.nn">>, q.base))
                    ELSE failed("RuntimeError: not found")

\* A name asked of paddleseg fails there although paddledet, a local registry
\* and a built-in namespace all hold it
C9_Witness ==
    /\ component.op = "_load_component"
    /\ Asked.family = "seg"
    /\ component.err = "RuntimeError: not found in paddleseg"
    /\ Asked.base \in registry.det
    /\ Asked.base \in registry.local["MODELS"]
    /\ Asked.base \in registry.nn

----------------------------------------------------------------------------
(* The trees the instantiation is run on *)

MaxWeight == 6

\* Registered: Foo, a local model. Bar is registered nowhere.
LoadRegistry == RegistryOf({<<<<"local", "MODELS">>, Foo>>})

TypeNames == {Str(Foo), Str(Bar)}
Atoms == {Sc("1"), Str(<<"x", "y">>)}

\* Atoms weigh 1, a list or a dict 1 more than what it holds
RECURSIVE Weight(_)
Weight(v) ==
    CASE v = Absent -> 0
      [] v.k = "l" ->
           LET RECURSIVE SumList(_)
               SumList(i) == IF i > Len(v.q) THEN 0
                             ELSE Weight(v.q[i]) + SumList(i + 1)
           IN  1 + SumList(1)
      [] v.k = "d" ->
           LET RECURSIVE SumKeys(_)
               SumKeys(S) == IF S = {} THEN 0
                             ELSE LET x == CHOOSE y \in S : TRUE
                                  IN  Weight(v.m[x]) + SumKeys(S \ {x})
           IN  1 + SumKeys(DOMAIN v.m)
      [] OTHER -> 1

BuildDescriptor(t, va, vb) ==
    LET val(x) == CASE x = "type" -> t [] x = "a" -> va [] OTHER -> vb
    IN  Dct([x \in {y \in {"type", "a", "b"} : val(y) # Absent} |-> val(x)])

\* The values of weight at most n nested at most depth levels (the weight
\* bounds the nesting too): atoms, lists of up to two values, and dicts over
\* the keys type, a and b.
RECURSIVE ValuesOf(_, _)
ValuesOf(n, depth) ==
    IF n < 1 THEN {}
    ELSE Atoms
         \cup (IF depth < 1 THEN {}
               ELSE {Lst(<<>>)}
                    \cup {Lst(<<x>>) : x \in ValuesOf(n - 1, depth - 1)}
                    \cup UNION {{Lst(<<x, y>>) :
                                    y \in ValuesOf(n - 1 - Weight(x), depth - 1)} :
                                x \in ValuesOf(n - 2, depth - 1)}
                    \cup UNION {UNION {{BuildDescriptor(t, va, vb) :
                                    vb \in {Absent} \cup
                                        {x \in {Sc("1")} : n - 1 - Weight(t) - Weight(va) >= 1}} :
                                va \in {Absent} \cup
                                    ValuesOf(n - 1 - Weight(t), depth - 1)} :
                            t \in {Absent} \cup {x \in TypeNames : n >= 2}})

NotLoaded == [op |-> "none", recursive |-> TRUE, v |-> NoneV, err |-> "none"]

LoadInit ==
    /\ \E t \in ValuesOf(MaxWeight, MaxWeight) :
          LET st == Store(<<>>, t)
          IN  heap = st.h /\ objArg = st.v /\ given = t
    /\ registry = LoadRegistry
    /\ objects = <<>>
    /\ loaded = NotLoaded
    /\ dicArg = Idle /\ baseArg = Idle /\ merged = Idle /\ files = Idle
    /\ comName = Idle /\ component = Idle
    /\ cfg = Idle /\ ret = Idle

\* self._load_object(obj, recursive)
CallLoadObject ==
    /\ loaded.op = "none"
    /\ \E recursive \in BOOLEAN :
          LET r == LoadObject(registry, heap, objects, objArg, recursive)
          IN  /\ heap' = r.h
              /\ objects' = r.objs
              /\ loaded' = [op |-> "_load_object", recursive |-> recursive,
                            v |-> r.v, err |-> r.err]
    /\ UNCHANGED <<objArg, given, registry, files>>
    /\ UNCHANGED <<mergeVars, resolveVars, configVars>>

LoadNext == CallLoadObject

LoadSpec == LoadInit /\ [][LoadNext]_vars

\* A value with every built object written out as its class and parameters
RECURSIVE Shape(_, _, _)
Shape(h, objs, v) ==
    CASE v.k = "o" ->
           [k |-> "built", cls |-> objs[v.id].cls,
            kwargs |-> [x \in DOMAIN objs[v.id].kwargs |->
                           Shape(h, objs, objs[v.id].kwargs[x])]]
      [] v.k = "r" -> Dct([x \in DOMAIN h[v.a] |-> Shape(h, objs, h[v.a][x])])
      [] v.k = "d" -> Dct([x \in DOMAIN v.m |-> Shape(h, objs, v.m[x])])
      [] v.k = "l" -> Lst([i \in DOMAIN v.q |-> Shape(h, objs, v.q[i])])
      [] OTHER -> v

IsDescriptor(t) == t.k = "d" /\ "type" \in DOMAIN t.m

\* What the claim says instantiate returns for a tree
RECURSIVE Instantiated(_)
Instantiated(t) ==
    CASE IsDescriptor(t) ->
           [k |-> "built", cls |-> LoadComponent(LoadRegistry, t.m["type"].p).v,
            kwargs |-> [x \in (DOMAIN t.m) \ {"type"} |-> Instantiated(t.m[x])]]
      [] t.k = "d" -> Dct([x \in DOMAIN t.m |-> Instantiated(t.m[x])])
      [] t.k = "l" -> Lst([i \in DOMAIN t.q |-> Instantiated(t.q[i])])
      [] OTHER -> t

\* The type descriptors of a tree, at any depth
RECURSIVE Descriptors(_)
Descriptors(t) ==
    CASE t.k = "d" -> (IF IsDescriptor(t) THEN {t} ELSE {})
                      \cup UNION {Descriptors(t.m[x]) : x \in (DOMAIN t.m) \ {"type"}}
      [] t.k = "l" -> UNION {Descriptors(t.q[i]) : i \in DOMAIN t.q}
      [] OTHER -> {}

Resolvable(t) ==
    \A d \in Descriptors(t) : LoadComponent(LoadRegistry, d.m["type"].p).err = "none"

\* C10: instantiate with recursive = true returns scalars and sequences of
\* scalars as they are, a mapping without a type key as the plain mapping of
\* its instantiated values, and every type descriptor, at any depth through
\* mappings and sequences, as the object its component builds from the
\* instantiated remaining keys; the input tree is left as it was.
C10_Instantiate ==
    (loaded.op = "_load_object" /\ loaded.recursive) =>
        /\ Deref(heap, objArg) = given
        /\ IF Resolvable(given)
           THEN /\ loaded.err = "none"
                /\ Shape(heap, objects, loaded.v) = Instantiated(given)
           ELSE loaded.err = "RuntimeError: not found"

\* A descriptor inside a mapping inside a sequence inside a descriptor, built
C10_Witness ==
    /\ loaded.op = "_load_object" /\ loaded.recursive /\ loaded.err = "none"
    /\ IsDescriptor(given)
    /\ "a" \in DOMAIN given.m /\ given.m["a"].k = "l" /\ Len(given.m["a"].q) >= 1
    /\ given.m["a"].q[1].k = "d" /\ "a" \in DOMAIN given.m["a"].q[1].m
    /\ IsDescriptor(given.m["a"].q[1].m["a"])
    /\ Len(objects) = 2

----------------------------------------------------------------------------
(* The documents, the registries and the calls of the Config object *)

MaxObjects == 4

DataSet == <<"D", "a", "t", "a">>
Poly == <<"P", "o", "l", "y">>
Sgd == <<"S", "G", "D">>

ConfigRegistry ==
    RegistryOf({<<<<"local", "MODELS">>, Foo>>, <<<<"local", "DATASETS">>, DataSet>>,
                <<<<"lr", "">>, Poly>>, <<<<"optimizer", "">>, Sgd>>,
                <<<<"nn", "">>, Sequential>>})

Path(name) == <<"c", "f", "g", "/">> \o name

ModelFoo == Dct("type" :> Str(Foo) @@ "depth" :> Sc("50"))
ModelSequential == Dct("type" :> Str(Sequential))
LrPoly == Dct("type" :> Str(Poly) @@ "learning_rate" :> Sc("1"))
OptSgd == Dct("type" :> Str(Sgd) @@ "momentum" :> Sc("9"))
DataDesc == Dct("type" :> Str(DataSet) @@ "mode" :> Str(<<"t">>))

\* The documents on disk, by path
ConfigFiles ==
    Path(<<"a", ".", "y", "m", "l">>) :>
        Dct("model" :> ModelFoo @@ "lr_scheduler" :> LrPoly @@ "optimizer" :> OptSgd
            @@ "train_dataset" :> DataDesc @@ "batch_size" :> Sc("4"))
    @@ Path(<<"s", ".", "y", "a", "m", "l">>) :>
        Dct("model" :> ModelSequential @@ "lr_scheduler" :> LrPoly
            @@ "optimizer" :> OptSgd @@ "epochs" :> Sc("3"))
    @@ Path(<<"e", ".", "y", "m", "l">>) :>
        Dct("model" :> Dct(EmptyMap) @@ "train_dataset" :> Dct(EmptyMap)
            @@ "val_dataset" :> DataDesc)
    @@ Path(<<"n", ".", "y", "m", "l">>) :>
        Dct("lr_scheduler" :> LrPoly @@ "val_dataset" :> DataDesc)
    @@ Path(<<"t", ".", "y", "m", "l">>) :>
        Dct("_base_" :> Str(<<"b", ".", "t", "x", "t">>) @@ "iters" :> Sc("9"))
    @@ Path(<<"m", ".", "y", "m", "l">>) :>
        Dct("_base_" :> Str(<<"x", ".", "y", "m", "l">>) @@ "model" :> ModelFoo)
    @@ Path(<<"b", ".", "t", "x", "t">>) :>
        Dct("lr_scheduler" :> LrPoly)
    @@ Path(<<"c", ".", "y", "m", "l">>) :>
        Dct("_base_" :> Str(<<"a", ".", "y", "m", "l">>)
            @@ "model" :> Dct("depth" :> Sc("101")) @@ "iters" :> Sc("9"))

\* The paths a Config is asked to load: the files, a path without a file,
\* and the empty path
AskedPaths == (DOMAIN ConfigFiles) \cup {Path(<<"x", ".", "y", "m", "l">>), <<>>}

\* The keyword arguments (learning_rate, batch_size, iters, epochs) of a call
Overrides ==
    {<<NoneV, NoneV, NoneV, NoneV>>,
     <<Sc("5"), NoneV, NoneV, NoneV>>,
     <<NoneV, Sc("8"), Sc("7"), Sc("2")>>}

NoCall == [op |-> "none", args |-> <<>>, v |-> NoneV, err |-> "none"]

ConfigInit ==
    /\ files = ConfigFiles
    /\ registry = ConfigRegistry
    /\ objects = <<>>
    /\ cfg = NoneV
    /\ ret = NoCall
    /\ heap = Idle /\ given = Idle
    /\ dicArg = Idle /\ baseArg = Idle /\ merged = Idle
    /\ comName = Idle /\ component = Idle
    /\ objArg = Idle /\ loaded = Idle

Untouched ==
    /\ UNCHANGED <<files, registry, heap, given>>
    /\ UNCHANGED <<mergeVars, resolveVars, loadVars>>

\* cfg = Config(path=..., learning_rate=..., batch_size=..., iters=..., epochs=...)
CallNew ==
    /\ cfg = NoneV
    /\ \E path \in AskedPaths, kw \in Overrides :
          \E r \in {New(files, path, kw[1], kw[2], kw[3], kw[4])} :
              /\ cfg' = r.cfg
              /\ ret' = [op |-> "__init__", args |-> <<path>> \o kw,
                         v |-> NoneV, err |-> r.err]
    /\ UNCHANGED objects
    /\ Untouched

\* cfg.update(...)
CallUpdate ==
    /\ cfg # NoneV
    /\ \E kw \in Overrides :
          \E r \in {Update(cfg, kw[1], kw[2], kw[3], kw[4])} :
              /\ cfg' = r.cfg
              /\ ret' = [op |-> "update", args |-> kw, v |-> NoneV, err |-> r.err]
    /\ UNCHANGED objects
    /\ Untouched

Read(op, v) ==
    /\ ret' = [op |-> op, args |-> <<>>, v |-> v, err |-> "none"]
    /\ UNCHANGED <<cfg, objects>>
    /\ Untouched

\* cfg.batch_size
ReadBatchSize == cfg # NoneV /\ Read("batch_size", BatchSize(cfg))

\* cfg.iters
ReadIters == cfg # NoneV /\ Read("iters", Iters(cfg))

\* cfg.epochs
ReadEpochs == cfg # NoneV /\ Read("epochs", Epochs(cfg))

Built(op, result) ==
    \E r \in {result} :
        /\ cfg' = r.cfg
        /\ objects' = r.objs
        /\ ret' = [op |-> op, args |-> <<>>, v |-> r.v, err |-> r.err]
        /\ Untouched

\* cfg.lr_scheduler
ReadLrScheduler ==
    /\ cfg # NoneV /\ Len(objects) < MaxObjects
    /\ Built("lr_scheduler", LrScheduler(registry, cfg, objects))

\* cfg.optimizer
ReadOptimizer ==
    /\ cfg # NoneV /\ Len(objects) < MaxObjects
    /\ Built("optimizer", Optimizer(registry, cfg, objects))

\* cfg.model
ReadModel ==
    /\ cfg # NoneV /\ Len(objects) < MaxObjects
    /\ Built("model", Model(registry, cfg, objects))

\* cfg.train_dataset
ReadTrainDataset ==
    /\ cfg # NoneV /\ Len(objects) < MaxObjects
    /\ Built("train_dataset",
             Dataset(registry, cfg, objects, "train_dataset", "_train_dataset"))

\* cfg.val_dataset
ReadValDataset ==
    /\ cfg # NoneV /\ Len(objects) < MaxObjects
    /\ Built("val_dataset",
             Dataset(registry, cfg, objects, "val_dataset", "_val_dataset"))

ConfigNext ==
    \/ CallNew \/ CallUpdate
    \/ ReadBatchSize \/ ReadIters \/ ReadEpochs
    \/ ReadLrScheduler \/ ReadOptimizer \/ ReadModel
    \/ ReadTrainDataset \/ ReadValDataset

ConfigSpec == ConfigInit /\ [][ConfigNext]_vars

----------------------------------------------------------------------------
(* Claims about the Config object *)

CacheSlots == {"_model", "_train_dataset", "_val_dataset"}

\* The cache slot a property reads
SlotOf(op) ==
    CASE op = "model" -> "_model"
      [] op = "train_dataset" -> "_train_dataset"
      [] op = "val_dataset" -> "_val_dataset"

\* C1, as stated: over accesses of model, train_dataset, val_dataset and
\* calls of update, a populated cache slot is never emptied or replaced, and
\* a successful access of a populated slot returns the object in it.
C1_AsStated ==
    [][(cfg # NoneV /\ ret'.op \in {"model", "train_dataset", "val_dataset", "update"})
        => /\ \A slot \in CacheSlots : cfg[slot] # NoneV => cfg'[slot] = cfg[slot]
           /\ (ret'.op # "update" /\ ret'.err = "none" /\ cfg[SlotOf(ret'.op)] # NoneV)
                 => ret'.v = cfg[SlotOf(ret'.op)]]_vars

\* C2, as stated: an optimizer access on a Config with a model and an
\* lr_scheduler section succeeds; it populates the model cache if that is
\* empty and leaves a populated model cache as it is; it builds a new
\* optimizer object from a new lr_scheduler object and the parameters of the
\* cached model.
C2_AsStated ==
    [][(cfg # NoneV /\ ret'.op = "optimizer")
        => /\ (cfg._model # NoneV => cfg'._model = cfg._model)
           /\ (ret'.err = "none" =>
                 /\ cfg'._model # NoneV
                 /\ ret'.v = Obj(Len(objects'))
                 /\ Len(objects') > Len(objects)
                 /\ objects'[ret'.v.id].kwargs["parameters"] = Parameters(cfg'._model)
                 /\ objects'[ret'.v.id].kwargs["learning_rate"].k = "o"
                 /\ objects'[ret'.v.id].kwargs["learning_rate"].id > Len(objects))]_vars

\* The keyword arguments of the last __init__ or update
Keywords == IF ret.op = "__init__" THEN SubSeq(ret.args, 2, 5) ELSE ret.args

\* The document at the path loads when no override is given
Loadable(path) == New(files, path, NoneV, NoneV, NoneV, NoneV).err = "none"

\* C3, as stated: a Config creation on a loadable document, or an update,
\* given overrides succeeds, and afterwards the tree holds every supplied
\* value: learning_rate under lr_scheduler, batch_size, iters and epochs at
\* the top, where the properties read them.
C3_AsStated ==
    (ret.op = "update" \/ (ret.op = "__init__" /\ Loadable(ret.args[1])))
    => /\ ret.err = "none"
       /\ cfg # NoneV
       /\ Keywords[1] # NoneV =>
            /\ Contains(NoHeap, cfg.dic, "lr_scheduler")
            /\ Get(NoHeap, cfg.dic.m["lr_scheduler"], "learning_rate", NoneV) = Keywords[1]
       /\ Keywords[2] # NoneV => BatchSize(cfg) = Keywords[2]
       /\ Keywords[3] # NoneV => Iters(cfg) = Keywords[3]
       /\ Keywords[4] # NoneV => Epochs(cfg) = Keywords[4]

\* The error raised for a missing section
MissingSectionErrors == {"RuntimeError: no model", "RuntimeError: no lr_scheduler"}

\* The model section is absent from the tree or is empty
NoModelSection ==
    \/ ~Contains(NoHeap, cfg.dic, "model")
    \/ ~Truthy(objects, cfg.dic.m["model"])

\* C7, as stated: a model access on a tree whose model section is absent or
\* empty, and an lr_scheduler access on a tree without an lr_scheduler
\* section, raise the error of a missing section (RuntimeError) and populate
\* no cache slot.
C7_AsStated ==
    /\ (ret.op = "model" /\ NoModelSection)
         => ret.err \in MissingSectionErrors /\ cfg._model = NoneV
    /\ (ret.op = "lr_scheduler" /\ ~Contains(NoHeap, cfg.dic, "lr_scheduler"))
         => ret.err \in MissingSectionErrors /\ cfg._model = NoneV

\* What the load of a path is to end with when every document on the _base_
\* chain is held to the two tests of the top-level one: the first document
\* that does not exist or has another extension than yml or yaml decides
RECURSIVE Verdict(_, _)
Verdict(fs, path) ==
    IF path \notin DOMAIN fs THEN "FileNotFoundError"
    ELSE IF ~(EndsWith(path, Yml) \/ EndsWith(path, Yaml)) THEN "RuntimeError: not yaml"
    ELSE IF "_base_" \in DOMAIN fs[path].m
    THEN Verdict(fs, PathJoin(DirName(path), fs[path].m["_base_"].p))
    ELSE "none"

\* C8, as stated: creating a Config from a path whose document, or any base
\* document reached through _base_, does not exist raises FileNotFoundError,
\* and one whose extension is not a yaml one raises RuntimeError; no Config
\* comes to exist and nothing has been instantiated.
C8_AsStated ==
    (ret.op = "__init__" /\ ret.args[1] # <<>> /\ Verdict(files, ret.args[1]) # "none")
    => /\ ret.err = Verdict(files, ret.args[1])
       /\ cfg = NoneV
       /\ objects = <<>>

====
